---- MODULE Spec2Model ----
(***************************************************************************)
(* Model of slice_ext (src/src/lib.rs): the SplitInc iterator that splits  *)
(* a borrowed slice into contiguous runs before or after the elements a    *)
(* caller-supplied FnMut predicate matches.                                *)
(*                                                                         *)
(* Indices are 0-based usize values as in the source; the slice `data` is  *)
(* a TLA+ sequence, so the element at source index i is data[i + 1].       *)
(* Arithmetic that would panic in the source (index out of bounds, slice   *)
(* range out of bounds, usize subtraction overflow as in a debug build) is *)
(* modelled by a "Panic" result that names the fault.                      *)
(***************************************************************************)
EXTENDS Integers, Sequences, FiniteSets, TLC

\* ---------------------------------------------------------------- bounds
MaxLen == 4

NumValues == 2

MaxPulls == 6

Value == 0 .. (NumValues - 1)

Data == UNION { [1 .. n -> Value] : n \in 0 .. MaxLen }

\* A predicate is either pure (it matches exactly the elements of a fixed
\* set) or stateful (FnMut: its answer may differ at every evaluation).
Matcher ==
    [pure : {TRUE}, matches : SUBSET Value] \cup { [pure |-> FALSE, matches |-> {}] }

VARIABLES
    data,     \* the borrowed source slice
    matcher,  \* the caller's predicate
    mode,     \* "Unbuilt" before construction, then "Before" or "After"
    index,    \* SplitInc.index, the cursor
    last,     \* what the latest next() returned, and what it evaluated
    runs,     \* history: the ranges <<lo, hi>> returned so far
    evals,    \* history: every predicate evaluation [pos, ans] so far
    pulls,    \* history: number of next() calls so far
    fault     \* "" or the panic that ended the program

vars == <<data, matcher, mode, index, last, runs, evals, pulls, fault>>

\* ------------------------------------------------------- slices, panics
\* &data[a..b]
Slice(d, a, b) == SubSeq(d, a + 1, b)

\* data[i] panics unless i < len
IndexPanics(d, i) == ~(i < Len(d))

\* &data[a..b] panics unless a <= b <= len
SlicePanics(d, a, b) == (a > b) \/ (b > Len(d))

\* usize n - 1 overflows at n = 0
SubPanics(n) == n = 0

\* The answers the predicate can give during one next() call, by position.
Answers(d, m) ==
    IF m.pure
      THEN { [i \in 0 .. (Len(d) - 1) |-> d[i + 1] \in m.matches] }
      ELSE [0 .. (Len(d) - 1) -> BOOLEAN]

\* (self.matcher)(&self.data[i]) appended to the evaluation log
Evaluated(ev, ans, i) == Append(ev, [pos |-> i, ans |-> ans[i]])

\* ---------------------------------------------------- results of a pull
IterNoneReset(idx, ev) ==
    [kind |-> "None", lo |-> 0, hi |-> 0, index |-> 0, evals |-> ev, fault |-> ""]

\* return None
IterNone(idx, ev) ==
    [kind |-> "None", lo |-> 0, hi |-> 0, index |-> idx, evals |-> ev, fault |-> ""]

Panic(idx, ev, what) ==
    [kind |-> "Panic", lo |-> 0, hi |-> 0, index |-> idx, evals |-> ev, fault |-> what]

\* self.index = newIndex; return Some(&self.data[lo..hi])
IterSome(d, lo, hi, newIndex, ev) ==
    IF SlicePanics(d, lo, hi)
      THEN Panic(newIndex, ev, "slice index out of range")
      ELSE [kind |-> "Some", lo |-> lo, hi |-> hi, index |-> newIndex,
            evals |-> ev, fault |-> ""]

\* ------------------------------------------------------------ iter_before
RECURSIVE before_loop(_, _, _, _, _)

before_match_naive(d, ans, idx, i, ev) == IterSome(d, idx, i, i, ev)

before_match_no_skip(d, ans, idx, i, ev) ==
    IF i = idx
      THEN IterSome(d, idx, Len(d), Len(d), ev)
      ELSE IterSome(d, idx, i, i, ev)

before_match_inclusive(d, ans, idx, i, ev) ==
    IF i = idx /\ SubPanics(Len(d))
      THEN Panic(idx, ev, "attempt to subtract with overflow")
    ELSE IF i = idx /\ i < Len(d) - 1
      THEN before_loop(d, ans, idx, i + 1, ev)
    ELSE IF i = idx
      THEN IterSome(d, idx, Len(d), Len(d), ev)
    ELSE IterSome(d, idx, i + 1, i + 1, ev)

before_match_drop(d, ans, idx, i, ev) ==
    IF i = idx /\ SubPanics(Len(d))
      THEN Panic(idx, ev, "attempt to subtract with overflow")
    ELSE IF i = idx /\ i < Len(d) - 1
      THEN before_loop(d, ans, idx, i + 1, ev)
    ELSE IF i = idx
      THEN IterSome(d, idx, Len(d), Len(d), ev)
    ELSE IterSome(d, idx, i, i + 1, ev)

before_match_stuck(d, ans, idx, i, ev) ==
    IF i = idx /\ SubPanics(Len(d))
      THEN Panic(idx, ev, "attempt to subtract with overflow")
    ELSE IF i = idx /\ i < Len(d) - 1
      THEN before_loop(d, ans, idx, i + 1, ev)
    ELSE IF i = idx
      THEN IterSome(d, idx, Len(d), idx, ev)
    ELSE IterSome(d, idx, i, i, ev)

before_match_split_at_cursor(d, ans, idx, i, ev) ==
    IF i = idx
      THEN IterSome(d, idx, i + 1, i + 1, ev)
      ELSE IterSome(d, idx, i, i, ev)

\* The body of `if (self.matcher)(&self.data[i])`, lines 96-111.
before_match(d, ans, idx, i, ev) ==
    IF i = idx /\ SubPanics(Len(d))
      THEN Panic(idx, ev, "attempt to subtract with overflow")
    ELSE IF i = idx /\ i < Len(d) - 1
      THEN before_loop(d, ans, idx, i + 1, ev)          \* continue
    ELSE IF i = idx
      THEN IterSome(d, idx, Len(d), Len(d), ev)
    ELSE IterSome(d, idx, i, i, ev)

RECURSIVE before_loop_no_tail(_, _, _, _, _)
before_loop_no_tail(d, ans, idx, i, ev) ==
    IF ~(i < Len(d))
      THEN IterNone(idx, ev)
    ELSE IF IndexPanics(d, i)
      THEN Panic(idx, ev, "index out of bounds")
    ELSE IF ans[i]
      THEN before_match(d, ans, idx, i, Evaluated(ev, ans, i))
    ELSE IF i = Len(d)
      THEN IterSome(d, idx, Len(d), Len(d), Evaluated(ev, ans, i))
    ELSE before_loop_no_tail(d, ans, idx, i + 1, Evaluated(ev, ans, i))

\* for i in index..self.data.len(), from position i on, lines 94-120.
before_loop(d, ans, idx, i, ev) ==
    IF ~(i < Len(d))
      THEN IterNone(idx, ev)
    ELSE IF IndexPanics(d, i)
      THEN Panic(idx, ev, "index out of bounds")
    ELSE IF ans[i]
      THEN before_match(d, ans, idx, i, Evaluated(ev, ans, i))
    ELSE IF SubPanics(Len(d))
      THEN Panic(idx, Evaluated(ev, ans, i), "attempt to subtract with overflow")
    ELSE IF i = Len(d) - 1
      THEN IterSome(d, idx, Len(d), Len(d), Evaluated(ev, ans, i))
    ELSE before_loop(d, ans, idx, i + 1, Evaluated(ev, ans, i))

iter_before_hoisted(d, ans, idx) ==
    IF SubPanics(Len(d))
      THEN Panic(idx, <<>>, "attempt to subtract with overflow")
    ELSE IF idx = Len(d)
      THEN IterNone(idx, <<>>)
    ELSE before_loop(d, ans, idx, idx, <<>>)

iter_before_skip_boundary(d, ans, idx) ==
    IF idx = Len(d)
      THEN IterNone(idx, <<>>)
    ELSE IF idx > 0 /\ idx = Len(d) - 1
      THEN IterSome(d, idx, Len(d), Len(d), <<>>)
    ELSE IF idx > 0
      THEN before_loop(d, ans, idx, idx + 1, <<>>)
    ELSE before_loop(d, ans, idx, idx, <<>>)

iter_before(d, ans, idx) ==
    IF idx = Len(d)
      THEN IterNone(idx, <<>>)
      ELSE before_loop(d, ans, idx, idx, <<>>)

\* ------------------------------------------------------------- iter_after
RECURSIVE after_loop(_, _, _, _, _)

after_match_exclusive(d, idx, i, ev) == IterSome(d, idx, i, i + 1, ev)

after_match_stay(d, idx, i, ev) == IterSome(d, idx, i + 1, idx, ev)

\* The body of `if (self.matcher)(&self.data[i])`, lines 135-138.
after_match(d, idx, i, ev) == IterSome(d, idx, i + 1, i + 1, ev)

RECURSIVE after_loop_tail_first(_, _, _, _, _)
after_loop_tail_first(d, ans, idx, i, ev) ==
    IF ~(i < Len(d))
      THEN IterNone(idx, ev)
    ELSE IF SubPanics(Len(d))
      THEN Panic(idx, ev, "attempt to subtract with overflow")
    ELSE IF i = Len(d) - 1
      THEN IterSome(d, idx, Len(d), Len(d), ev)
    ELSE IF IndexPanics(d, i)
      THEN Panic(idx, ev, "index out of bounds")
    ELSE IF ans[i]
      THEN after_match(d, idx, i, Evaluated(ev, ans, i))
    ELSE after_loop_tail_first(d, ans, idx, i + 1, Evaluated(ev, ans, i))

\* for i in index..self.data.len(), from position i on, lines 132-147.
after_loop(d, ans, idx, i, ev) ==
    IF ~(i < Len(d))
      THEN IterNone(idx, ev)
    ELSE IF IndexPanics(d, i)
      THEN Panic(idx, ev, "index out of bounds")
    ELSE IF ans[i]
      THEN after_match(d, idx, i, Evaluated(ev, ans, i))
    ELSE IF SubPanics(Len(d))
      THEN Panic(idx, Evaluated(ev, ans, i), "attempt to subtract with overflow")
    ELSE IF i = Len(d) - 1
      THEN IterSome(d, idx, Len(d), Len(d), Evaluated(ev, ans, i))
    ELSE after_loop(d, ans, idx, i + 1, Evaluated(ev, ans, i))

iter_after_hoisted(d, ans, idx) ==
    IF SubPanics(Len(d))
      THEN Panic(idx, <<>>, "attempt to subtract with overflow")
    ELSE IF idx = Len(d)
      THEN IterNone(idx, <<>>)
    ELSE after_loop(d, ans, idx, idx, <<>>)

iter_after_restart(d, ans, idx) ==
    IF idx = Len(d)
      THEN IterNoneReset(idx, <<>>)
      ELSE after_loop(d, ans, idx, idx, <<>>)

iter_after(d, ans, idx) ==
    IF idx = Len(d)
      THEN IterNone(idx, <<>>)
      ELSE after_loop(d, ans, idx, idx, <<>>)

\* ------------------------------------------------------------ the machine
NoCall == [kind |-> "NoCall", lo |-> 0, hi |-> 0, evals |-> <<>>]

Init ==
    /\ data \in Data
    /\ matcher \in Matcher
    /\ mode = "Unbuilt"
    /\ index = 0
    /\ last = NoCall
    /\ runs = <<>>
    /\ evals = <<>>
    /\ pulls = 0
    /\ fault = ""

split_before_eager ==
    /\ mode = "Unbuilt"
    /\ mode' = "Before"
    /\ index' = 0
    /\ \E ans \in Answers(data, matcher) :
          evals' = (IF Len(data) > 0 THEN Evaluated(evals, ans, 0) ELSE evals)
    /\ UNCHANGED <<data, matcher, last, runs, pulls, fault>>

\* SplitInc::split_before (and the SplitBefore trait method that calls it)
split_before ==
    /\ mode = "Unbuilt"
    /\ mode' = "Before"
    /\ index' = 0
    /\ UNCHANGED <<data, matcher, last, runs, evals, pulls, fault>>

\* SplitInc::split_after (and the SplitAfter trait method that calls it)
split_after ==
    /\ mode = "Unbuilt"
    /\ mode' = "After"
    /\ index' = 0
    /\ UNCHANGED <<data, matcher, last, runs, evals, pulls, fault>>

\* The effect of one next() call whose outcome is r.
Returns(r) ==
    /\ index' = r.index
    /\ last' = [kind |-> r.kind, lo |-> r.lo, hi |-> r.hi, evals |-> r.evals]
    /\ runs' = IF r.kind = "Some" THEN Append(runs, <<r.lo, r.hi>>) ELSE runs
    /\ evals' = evals \o r.evals
    /\ pulls' = pulls + 1
    /\ fault' = r.fault
    /\ UNCHANGED <<data, matcher, mode>>

\* Iterator::next with Mode::Before
next_before ==
    /\ mode = "Before"
    /\ fault = ""
    /\ pulls < MaxPulls
    /\ \E ans \in Answers(data, matcher) : Returns(iter_before(data, ans, index))

\* Iterator::next with Mode::After
next_after ==
    /\ mode = "After"
    /\ fault = ""
    /\ pulls < MaxPulls
    /\ \E ans \in Answers(data, matcher) : Returns(iter_after(data, ans, index))

Next == split_before \/ split_after \/ next_before \/ next_after

Spec == Init /\ [][Next]_vars

\* A consumer that keeps calling next(): `while let Some(run) = s.next()`
\* and the calls after it, up to the bound on pulls.
FairSpec == Spec /\ WF_vars(Next)

\* ------------------------------------------------------- derived notions
N == Len(data)

Built == mode \in {"Before", "After"}

\* the latest next() signalled end-of-sequence
Exhausted == last.kind = "None"

\* source positions whose element a pure predicate matches
Matched == { i \in 0 .. (N - 1) : data[i + 1] \in matcher.matches }

RunStarts == { runs[k][1] : k \in 1 .. Len(runs) }

RunEnds == { runs[k][2] : k \in 1 .. Len(runs) }

\* what the caller of next() observes of a result, and the cursor it leaves
Outcome(r) == <<r.kind, r.lo, r.hi, r.index>>

\* the first position above s that the answers a match, or N
FirstTrueAfter(a, s) ==
    IF \E i \in (s + 1) .. (N - 1) : a[i]
      THEN CHOOSE i \in (s + 1) .. (N - 1) :
              a[i] /\ \A j \in (s + 1) .. (i - 1) : ~a[j]
      ELSE N

\* the first position above s that the evaluation log ev answers true, or N
FirstMatchLogged(ev, s) ==
    IF \E k \in 1 .. Len(ev) : ev[k].pos > s /\ ev[k].ans
      THEN ev[CHOOSE k \in 1 .. Len(ev) :
                 /\ ev[k].pos > s /\ ev[k].ans
                 /\ \A j \in 1 .. (k - 1) : ~(ev[j].pos > s /\ ev[j].ans)].pos
      ELSE N

\* how many times the predicate was called on position p
EvalCount(p) == Cardinality({ k \in 1 .. Len(evals) : evals[k].pos = p })

RECURSIVE Concat(_)
Concat(rs) ==
    IF rs = <<>> THEN <<>>
    ELSE Slice(data, rs[1][1], rs[1][2]) \o Concat(Tail(rs))

\* ----------------------------------------------------------------- claims

\* C1 (partition law): in both modes and for every predicate, pure or
\* stateful, the runs returned so far are the ranges [c0,c1),[c1,c2),...
\* with c0 = 0 and the last end equal to the cursor, their concatenation is
\* the source prefix below the cursor, and once next() has returned None the
\* cursor is N, so the concatenation of all runs is the source exactly.
PartitionLaw ==
    Built =>
      /\ \A k \in 1 .. Len(runs) :
            runs[k][1] = (IF k = 1 THEN 0 ELSE runs[k - 1][2])
      /\ index = (IF runs = <<>> THEN 0 ELSE runs[Len(runs)][2])
      /\ Concat(runs) = Slice(data, 0, index)
      /\ Exhausted => (index = N /\ Concat(runs) = data)

PartitionLawWitness ==
    /\ mode = "Before"
    /\ ~matcher.pure
    /\ Exhausted
    /\ Len(runs) >= 3

\* C2 (non-empty-run law): every run a next() call returns, in either mode
\* and for every predicate, has at least one element.
NonEmptyRuns ==
    /\ \A k \in 1 .. Len(runs) : runs[k][1] < runs[k][2]
    /\ last.kind = "Some" => last.lo < last.hi

NonEmptyRunsWitness ==
    /\ mode = "Before"
    /\ N >= 2
    /\ Len(runs) >= 2
    /\ \E k \in 1 .. Len(evals) : evals[k].pos = 0 /\ evals[k].ans
    /\ \E k \in 1 .. Len(evals) : evals[k].pos = N - 1 /\ evals[k].ans

\* C3 (idempotent terminal state): once next() has returned None, the
\* cursor is N and every later next() returns None again, leaves the cursor
\* alone, returns no run and evaluates the predicate nowhere.
TerminalIdempotent ==
    [][Exhausted =>
         /\ index = N
         /\ last'.kind = "None"
         /\ index' = index
         /\ runs' = runs
         /\ evals' = evals]_vars

TerminalIdempotentWitness ==
    /\ Exhausted
    /\ N >= 2
    /\ pulls >= Len(runs) + 2

\* C4 (empty-source law): over a source of length 0 every next(), the first
\* included, returns None in both modes; no run is produced, the predicate
\* is never evaluated and nothing panics (len - 1 is never computed).
EmptySource ==
    (Built /\ N = 0) =>
      /\ runs = <<>>
      /\ evals = <<>>
      /\ fault = ""
      /\ index = 0
      /\ pulls >= 1 => last.kind = "None"

EmptySourceWitness ==
    /\ mode = "After"
    /\ N = 0
    /\ pulls = 1
    /\ last.kind = "None"

\* C5 (Before-mode placement): for a non-empty source and a pure predicate,
\* the runs of an exhausted split_before start exactly at 0 and at every
\* matching position i > 0; every run after the first begins with a match
\* and no element of a run other than its first matches.
BeforePlacement ==
    (mode = "Before" /\ matcher.pure /\ Exhausted /\ N > 0) =>
      /\ RunStarts = {0} \cup { i \in Matched : i > 0 }
      /\ \A k \in 2 .. Len(runs) : runs[k][1] \in Matched
      /\ \A k \in 1 .. Len(runs) :
            \A i \in (runs[k][1] + 1) .. (runs[k][2] - 1) : i \notin Matched

BeforePlacementWitness ==
    /\ mode = "Before"
    /\ matcher = [pure |-> TRUE, matches |-> {1}]
    /\ data = <<0, 0, 1>>
    /\ Exhausted
    /\ runs = << <<0, 2>>, <<2, 3>> >>

\* C6 (After-mode placement): for a non-empty source and a pure predicate,
\* the runs of an exhausted split_after end exactly at i + 1 for every
\* matching position i, and at N; every run but the last ends with a match
\* and only the last element of a run can match.
AfterPlacement ==
    (mode = "After" /\ matcher.pure /\ Exhausted /\ N > 0) =>
      /\ RunEnds = { i + 1 : i \in Matched } \cup {N}
      /\ \A k \in 1 .. (Len(runs) - 1) : (runs[k][2] - 1) \in Matched
      /\ \A k \in 1 .. Len(runs) :
            \A i \in runs[k][1] .. (runs[k][2] - 2) : i \notin Matched

AfterPlacementWitness ==
    /\ mode = "After"
    /\ matcher = [pure |-> TRUE, matches |-> {1}]
    /\ data = <<1, 0, 0>>
    /\ Exhausted
    /\ runs = << <<0, 1>>, <<1, 3>> >>

\* C7 (predicate evaluation count): over the whole iteration the predicate
\* is evaluated at most once per source position, in sequence order.
EvalAtMostOnce ==
    \A j, k \in 1 .. Len(evals) : j < k => evals[j].pos < evals[k].pos

\* C8 (absorbed first match): in Before mode the first run starts at 0 and
\* is not empty; for a pure predicate matching exactly position 0 the only
\* run is [0,N), and for one matching exactly {0, k} with 0 < k < N - 1 the
\* runs are [0,k) and [k,N).
AbsorbedFirstMatch ==
    /\ (mode = "Before" /\ runs # <<>>) => (runs[1][1] = 0 /\ runs[1][2] > 0)
    /\ (mode = "Before" /\ matcher.pure /\ Exhausted /\ N >= 1) =>
         /\ Matched = {0} => runs = << <<0, N>> >>
         /\ \A k \in 1 .. (N - 2) :
               Matched = {0, k} => runs = << <<0, k>>, <<k, N>> >>

AbsorbedFirstMatchWitness ==
    /\ mode = "Before"
    /\ matcher.pure
    /\ Exhausted
    /\ N = 4
    /\ Matched = {0, 2}
    /\ runs = << <<0, 2>>, <<2, 4>> >>

\* C9 (cursor invariant): 0 <= index <= N always; index never decreases; a
\* next() that returns a run strictly increases index and the run is the
\* range [old index, new index); a next() that returns None leaves index
\* unchanged.
CursorInvariant ==
    /\ [](index \in 0 .. N)
    /\ [][/\ index' >= index
          /\ (pulls' # pulls /\ last'.kind = "Some") =>
                (index' > index /\ last'.lo = index /\ last'.hi = index')
          /\ (pulls' # pulls /\ last'.kind = "None") => index' = index]_vars

CursorInvariantWitness ==
    /\ last.kind = "Some"
    /\ Len(runs) >= 2
    /\ 0 < last.lo
    /\ index < N

\* C10 (no fault): no next() call panics, whatever the length, the mode, the
\* predicate and the number of calls: every evaluated position is below N,
\* every returned range [a,b) has 0 <= a <= b <= N, len - 1 is never
\* computed at len = 0 and the cursor i + 1 never exceeds N.
NoFault ==
    /\ fault = ""
    /\ last.kind # "Panic"
    /\ \A k \in 1 .. Len(evals) : evals[k].pos \in 0 .. (N - 1)
    /\ \A k \in 1 .. Len(runs) :
          0 <= runs[k][1] /\ runs[k][1] <= runs[k][2] /\ runs[k][2] <= N
    /\ index <= N

NoFaultWitness ==
    /\ mode = "After"
    /\ N >= 1
    /\ Exhausted
    /\ pulls > Len(runs) + 1
    /\ evals[Len(evals)] = [pos |-> N - 1, ans |-> TRUE]

\* C11 (exhaustion exactly at cursor = N): a next() call returns None if and
\* only if index = N when the call starts; whenever index < N it returns a
\* run, so the None after the scan loop is never returned, and the first
\* pull on a non-empty source returns a run.
ExhaustionExactlyAtN ==
    [][pulls' # pulls =>
         /\ (last'.kind = "None") <=> (index = N)
         /\ (index < N) => (last'.kind = "Some")
         /\ (pulls = 0 /\ N > 0) => (last'.kind = "Some")]_vars

ExhaustionExactlyAtNWitness ==
    /\ mode = "Before"
    /\ ~matcher.pure
    /\ N >= 2
    /\ pulls = 1
    /\ last.kind = "Some"
    /\ last.hi = N
    /\ \A k \in 1 .. Len(last.evals) : ~last.evals[k].ans

\* C12 (termination): in both modes and for every predicate, at most N
\* next() calls return a run, a non-empty source yields at least one run
\* before the end, each call evaluates at most N - index positions, the
\* call number N + 1 at the latest has returned None, and a consumer that
\* keeps calling next() does reach end-of-sequence.
Termination ==
    /\ [](Len(runs) <= N)
    /\ []((Exhausted /\ N > 0) => Len(runs) >= 1)
    /\ []((Built /\ pulls >= N + 1) => Exhausted)
    /\ [][pulls' # pulls => Len(last'.evals) <= N - index]_vars
    /\ <>Exhausted

TerminationWitness ==
    /\ ~matcher.pure
    /\ N >= 3
    /\ Len(runs) = N
    /\ pulls = N + 1
    /\ Exhausted

\* C13 (After-mode evaluation order): in After mode the predicate has been
\* evaluated exactly once at each position below the cursor, in increasing
\* order, and nowhere else, so at exhaustion at every position 0 .. N-1; a
\* pull that returns [s,e) evaluates exactly s, s+1, ..., e-1.
AfterEvalOrder ==
    mode = "After" =>
      /\ Len(evals) = index
      /\ \A k \in 1 .. Len(evals) : evals[k].pos = k - 1
      /\ Exhausted => Len(evals) = N
      /\ last.kind = "Some" =>
            /\ Len(last.evals) = last.hi - last.lo
            /\ \A k \in 1 .. Len(last.evals) : last.evals[k].pos = last.lo + k - 1

AfterEvalOrderWitness ==
    /\ mode = "After"
    /\ N = 4
    /\ last.kind = "Some"
    /\ last.lo = 1
    /\ last.hi = 3
    /\ Len(last.evals) = 2

\* C14 (Before-mode evaluation order): in Before mode the evaluated
\* positions never decrease; at exhaustion every position 0 .. N-1 has been
\* evaluated, twice if it is the first position of a run other than the
\* first run and exactly once otherwise.
BeforeEvalOrder ==
    mode = "Before" =>
      /\ \A k \in 1 .. (Len(evals) - 1) : evals[k].pos <= evals[k + 1].pos
      /\ Exhausted =>
            \A p \in 0 .. (N - 1) :
               EvalCount(p) = (IF p \in RunStarts \ {0} THEN 2 ELSE 1)

BeforeEvalOrderWitness ==
    /\ mode = "Before"
    /\ ~matcher.pure
    /\ N = 4
    /\ Exhausted
    /\ RunStarts = {0, 2, 3}
    /\ EvalCount(1) = 1
    /\ EvalCount(2) = 2
    /\ EvalCount(3) = 2

\* C15 (the answer at the cursor is ignored in Before mode): a pull from
\* cursor s < N returns the run [s,e) and leaves the cursor at e, where e is
\* the first position above s that the predicate answers true, or N; the
\* outcome is the same when the answer at s is flipped.
CursorAnswerIgnored ==
    /\ []((mode = "Before" /\ index < N /\ fault = "") =>
            /\ \A a \in Answers(data, matcher) :
                  Outcome(iter_before(data, a, index)) =
                     <<"Some", index, FirstTrueAfter(a, index), FirstTrueAfter(a, index)>>
            /\ ~matcher.pure =>
                  \A a \in Answers(data, matcher) :
                     Outcome(iter_before(data, [a EXCEPT ![index] = ~a[index]], index))
                        = Outcome(iter_before(data, a, index)))
    /\ [][(pulls' # pulls /\ mode = "Before" /\ index < N) =>
            /\ last'.kind = "Some"
            /\ last'.lo = index
            /\ last'.hi = FirstMatchLogged(last'.evals, index)
            /\ index' = last'.hi]_vars

CursorAnswerIgnoredWitness ==
    /\ mode = "Before"
    /\ ~matcher.pure
    /\ last.kind = "Some"
    /\ last.lo > 0
    /\ last.hi >= last.lo + 2
    /\ last.evals[1] = [pos |-> last.lo, ans |-> TRUE]
    /\ index < N

\* C16 (construction is lazy and total): split_before and split_after can
\* always be called on the caller's slice and predicate; they change nothing
\* but the mode and leave the cursor at 0 with no predicate evaluation, no
\* run and no panic; the mode and the source never change afterwards; the
\* predicate is first evaluated by the first next() on a non-empty source,
\* at position 0.
LazyConstruction ==
    /\ [](mode = "Unbuilt" => (ENABLED split_before /\ ENABLED split_after))
    /\ []((Built /\ pulls = 0) =>
            (index = 0 /\ evals = <<>> /\ runs = <<>> /\ last = NoCall /\ fault = ""))
    /\ [][mode = "Unbuilt" =>
            /\ mode' \in {"Before", "After"}
            /\ index' = 0
            /\ UNCHANGED <<data, matcher, last, runs, evals, pulls, fault>>]_vars
    /\ [][Built => (mode' = mode /\ data' = data /\ matcher' = matcher)]_vars
    /\ [](evals # <<>> => (pulls >= 1 /\ N > 0 /\ evals[1].pos = 0))
    /\ []((pulls >= 1 /\ N > 0) => evals # <<>>)

LazyConstructionWitness ==
    /\ mode = "Before"
    /\ ~matcher.pure
    /\ N >= 1
    /\ pulls = 0
    /\ index = 0
    /\ evals = <<>>

====
